---- MODULE Spec2Model ----
(***************************************************************************)
(* Model of vagrant/hack/lib/cluster_api.py: the cluster-API records, the   *)
(* folder scan parse with get_cluster and get_machineSet, the accessor      *)
(* getx, the machine expander get_machines and fallbackSettings.            *)
(* Strings are TLA+ strings; Python's "%s" formatting is string             *)
(* concatenation with the decimal rendering of integers.                    *)
(***************************************************************************)
EXTENDS Integers, Sequences, FiniteSets, TLC

VARIABLES
    document,       \* the Cluster document last given to get_cluster, or NoDocument
    parsed,         \* how the last get_cluster call ended: NotCalled, Returned or an exception
    cluster,        \* the VagrantCluster record the caller holds, or NoCluster
    machineSets,    \* the caller's list of VagrantMachineSet records
    machines,       \* the list returned by the last get_machines call, or NoMachines
    outcome,        \* how the last call ended: NotCalled, Returned or an error message
    machinesFile,   \* whether tmp/machines.yml exists
    dumped,         \* whether the last get_machines call wrote tmp/machines.yml
    passes,         \* to how many get_machines calls the cluster record was passed:
                    \* Never, Once or Again (more than once)
    folder,         \* the documents of the files glob.glob(folder) yields, in scan order
    parseResult,    \* how the last parse call ended: NoParse, or its outcome
    call            \* the last direct getx call and its outcome, or NoCall

vars == <<document, parsed, cluster, machineSets, machines, outcome, machinesFile, dumped, passes,
          folder, parseResult, call>>

\* the variables of parse and of direct getx calls
parseVars == <<folder, parseResult, call>>

(***************************************************************************)
(* Bounds of the model.                                                     *)
(***************************************************************************)
\* longest machine-set list the caller builds
MaxSets == 2
\* largest replica count of a machine set
MaxReplicas == 5
\* most files the scanned folder holds
MaxFiles == 3

(***************************************************************************)
(* Constants of cluster_api.py and kubeadm_utils.py.                        *)
(***************************************************************************)
ROLE_MASTER == "Master"
ROLE_NODE == "Node"
ROLE_ETCD == "Etcd"

CONTROLPLANE_TYPE_STATICPODS == "staticPods"
CONTROLPLANE_TYPE_SELFHOSTING == "selfHosting"
CERTIFICATEAUTHORITY_LOCATION_FILESYSTEM == "filesystem"
CERTIFICATEAUTHORITY_LOCATION_SECRETS == "secrets"

\* what the caller holds where a call raised or was not made: Python's None
NoDocument == [none |-> "document"]
NoCluster == [none |-> "cluster"]
NoMachines == <<[none |-> "machines"]>>
Never == "Never"
Once == "Once"
Again == "Again"
NotCalled == "NotCalled"
Returned == "Returned"
NoParse == [kind |-> NotCalled, value |-> ""]
NoCall == [none |-> "call"]

\* the messages of the ValueErrors get_machines raises
ERR_NO_MASTER == "Invalid cluster definition. At least one Master machine is required"
ERR_NO_ETCD == "Invalid cluster definition. Multi masters requires external etcd."
ERR_SECRETS == "Invalid cluster definition. Multi masters does not support certificates in secrets yet."

GetMachinesErrors == {ERR_NO_MASTER, ERR_NO_ETCD, ERR_SECRETS}

(***************************************************************************)
(* Input domains.                                                           *)
(***************************************************************************)
\* replica counts a MachineSet document can carry (validate_integer admits
\* every integer, negative and zero included)
ReplicaCounts == {-1, 0, 1, MaxReplicas}

\* the machine-set templates the documents are drawn from: name, box, cpus,
\* memory and roles (the first carries the defaults of get_machineSet)
Templates ==
    { [name |-> "master", box |-> "ubuntu/xenial64", cpus |-> 2, memory |-> 2048,
       roles |-> {ROLE_MASTER}],
      [name |-> "node", box |-> "bento/ubuntu-17.10", cpus |-> 4, memory |-> 4096,
       roles |-> {ROLE_NODE}],
      [name |-> "etcd", box |-> "ubuntu/xenial64", cpus |-> 1, memory |-> 1024,
       roles |-> {ROLE_ETCD}],
      [name |-> "stacked", box |-> "ubuntu/bionic64", cpus |-> 4, memory |-> 8192,
       roles |-> {ROLE_MASTER, ROLE_ETCD}] }

\* class VagrantMachineSet
VagrantMachineSet ==
    { [name |-> t.name, replicas |-> n, box |-> t.box, cpus |-> t.cpus,
       memory |-> t.memory, roles |-> t.roles] :
        t \in Templates, n \in ReplicaCounts }

(***************************************************************************)
(* YAML values, as yaml.load returns them: each value carries its Python    *)
(* type as the name of its single field.                                    *)
(***************************************************************************)
YStr(s) == [str |-> s]
YInt(n) == [int |-> n]
YList(l) == [list |-> l]
YMap(m) == [map |-> m]
YNone == [none |-> TRUE]

IsStr(v) == DOMAIN v = {"str"}
IsInt(v) == DOMAIN v = {"int"}
IsList(v) == DOMAIN v = {"list"}
IsMap(v) == DOMAIN v = {"map"}

\* outcomes of a call: a returned value or a raised exception
Ok(v) == [kind |-> "ok", value |-> v]
Raise(e, m) == [kind |-> e, value |-> m]
IsOk(r) == r.kind = "ok"

(***************************************************************************)
(* str.split('.') of a dotted key path.                                      *)
(***************************************************************************)
RECURSIVE DotIndex(_, _)
\* index of the first '.' of s at or after position i, or 0
DotIndex(s, i) ==
    IF i > Len(s) THEN 0
    ELSE IF SubSeq(s, i, i) = "." THEN i
    ELSE DotIndex(s, i + 1)

RECURSIVE Split(_)
Split(s) ==
    LET d == DotIndex(s, 1)
    IN  IF d = 0 THEN <<s>>
        ELSE <<SubSeq(s, 1, d - 1)>> \o Split(SubSeq(s, d + 1, Len(s)))

(***************************************************************************)
(* Regular expressions of kubernetes_utils.py and utils.py, matched with    *)
(* re.match: '^' anchors at the start, '$' at the end or before one final   *)
(* newline.  re.match raises TypeError on a value that is not a string.     *)
(***************************************************************************)
Chars(s) == {SubSeq(s, i, i) : i \in 1 .. Len(s)}
Digit == Chars("0123456789")
AlphaNum == Chars("abcdefghijklmnopqrstuvwxyz") \cup Digit

\* the candidates '$' leaves for the text before it
DollarCuts(s) ==
    {s} \cup (IF Len(s) > 0 /\ SubSeq(s, Len(s), Len(s)) = "\n"
              THEN {SubSeq(s, 1, Len(s) - 1)} ELSE {})

\* [a-z0-9]([-a-z0-9]*[a-z0-9])? over the whole of s
IsLabel(s) ==
    /\ Len(s) >= 1
    /\ SubSeq(s, 1, 1) \in AlphaNum
    /\ SubSeq(s, Len(s), Len(s)) \in AlphaNum
    /\ \A i \in 1 .. Len(s) : SubSeq(s, i, i) \in AlphaNum \cup {"-"}

\* RFC1123_LABEL_PATTERN
MatchLabel(s) == \E t \in DollarCuts(s) : IsLabel(t)

validate_rfc123_label(arg) ==
    IF ~IsStr(arg) THEN "TypeError"
    ELSE IF ~MatchLabel(arg.str) THEN "ValueError"
    ELSE "ok"

\* RFC1123_SUBDOMAIN_PATTERN: labels joined by dots
MatchSubdomain(s) ==
    \E t \in DollarCuts(s) :
        LET parts == Split(t)
        IN  \A i \in 1 .. Len(parts) : IsLabel(parts[i])

validate_rfc123_subdomain(arg) ==
    IF ~IsStr(arg) THEN "TypeError"
    ELSE IF ~MatchSubdomain(arg.str) THEN "ValueError"
    ELSE "ok"

RECURSIVE SlashIndex(_, _)
\* index of the first '/' of s at or after position i, or 0
SlashIndex(s, i) ==
    IF i > Len(s) THEN 0
    ELSE IF SubSeq(s, i, i) = "/" THEN i
    ELSE SlashIndex(s, i + 1)

AllDigits(s) == Len(s) >= 1 /\ \A i \in 1 .. Len(s) : SubSeq(s, i, i) \in Digit

\* [1-9]?\d | 1\d\d | 2[0-4]\d | 25[0-5] over the whole of s
IsOctet(s) ==
    /\ AllDigits(s)
    /\ \/ Len(s) = 1
       \/ Len(s) = 2 /\ SubSeq(s, 1, 1) # "0"
       \/ Len(s) = 3 /\ SubSeq(s, 1, 1) = "1"
       \/ Len(s) = 3 /\ SubSeq(s, 1, 1) = "2" /\ SubSeq(s, 2, 2) \in Chars("01234")
       \/ Len(s) = 3 /\ SubSeq(s, 1, 2) = "25" /\ SubSeq(s, 3, 3) \in Chars("012345")

\* [0-9] | [1-2][0-9] | 3[0-2] over the whole of s
IsPrefixLen(s) ==
    /\ AllDigits(s)
    /\ \/ Len(s) = 1
       \/ Len(s) = 2 /\ SubSeq(s, 1, 1) \in Chars("12")
       \/ Len(s) = 2 /\ SubSeq(s, 1, 1) = "3" /\ SubSeq(s, 2, 2) \in Chars("012")

\* CIDR_PATTERN: the lookahead fixes four dotted digit runs followed by the
\* end or a '/', so each of the four octet groups covers exactly one run
MatchCidr(s) ==
    \E t \in DollarCuts(s) :
        LET sl == SlashIndex(t, 1)
            addr == IF sl = 0 THEN t ELSE SubSeq(t, 1, sl - 1)
            parts == Split(addr)
        IN  /\ Len(parts) = 4
            /\ \A i \in 1 .. 4 : IsOctet(parts[i])
            /\ sl # 0 => IsPrefixLen(SubSeq(t, sl + 1, Len(t)))

validate_cidr(arg) ==
    IF ~IsStr(arg) THEN "TypeError"
    ELSE IF ~MatchCidr(arg.str) THEN "ValueError"
    ELSE "ok"

\* validate_cidrs(*args), called by getx with the one resolved value
validate_cidrs(arg) == validate_cidr(arg)

Whitespace == {" ", "\t", "\n", "\r"}

RECURSIVE Strip(_)
\* str.strip(): what int() does to a string before it reads the number
Strip(s) ==
    IF Len(s) = 0 THEN s
    ELSE IF SubSeq(s, 1, 1) \in Whitespace THEN Strip(SubSeq(s, 2, Len(s)))
    ELSE IF SubSeq(s, Len(s), Len(s)) \in Whitespace THEN Strip(SubSeq(s, 1, Len(s) - 1))
    ELSE s

\* whether int(s) accepts the string s: an optional sign and decimal digits
IntLiteral(s) ==
    LET t == Strip(s)
        u == IF Len(t) > 0 /\ SubSeq(t, 1, 1) \in {"+", "-"} THEN SubSeq(t, 2, Len(t)) ELSE t
    IN  AllDigits(u)

\* utils.validate_integer: int(arg), of which only the ValueError is caught
\* and raised again; int() of a list, a mapping or None raises TypeError
validate_integer(arg) ==
    IF IsInt(arg) THEN "ok"
    ELSE IF IsStr(arg) THEN (IF IntLiteral(arg.str) THEN "ok" ELSE "ValueError")
    ELSE "TypeError"

\* cluster_api.validate_roles: every element the value iterates over is one
\* of the three roles; a string iterates over its characters, a mapping over
\* its keys, and an integer or None is not iterable
validate_roles(args) ==
    LET valid == {ROLE_MASTER, ROLE_NODE, ROLE_ETCD}
    IN  IF IsList(args)
        THEN IF \A i \in 1 .. Len(args.list) :
                    IsStr(args.list[i]) /\ args.list[i].str \in valid
             THEN "ok" ELSE "ValueError"
        ELSE IF IsStr(args)
        THEN IF \A i \in 1 .. Len(args.str) : SubSeq(args.str, i, i) \in valid
             THEN "ok" ELSE "ValueError"
        ELSE IF IsMap(args)
        THEN IF DOMAIN args.map \subseteq valid THEN "ok" ELSE "ValueError"
        ELSE "TypeError"

(***************************************************************************)
(* Enumerations of kubeadm_utils.py.                                        *)
(***************************************************************************)
DEFAULT_DNS_DOMAIN == "cluster.local"
CERTIFICATEAUTHORITY_TYPE_LOCAL == "local"
CERTIFICATEAUTHORITY_TYPE_EXTERNAL == "external"
DNS_ADDON_KUBE_DNS == "kubeDNS"
DNS_ADDON_CORE_DNS == "coreDNS"
NETWORK_ADDON_WEAVENET == "weavenet"
NETWORK_ADDON_FLANNEL == "flannel"
NETWORK_ADDON_CALICO == "calico"
KUBELET_CONFIG_TYPE_SYSTEMDDROPIN == "systemdDropIn"
KUBELET_CONFIG_TYPE_DYNAMICKUBELETCONFIG == "dynamicKubeletConfig"

\* "arg not in valid" for a list of strings
OneOf(arg, valid) == IF IsStr(arg) /\ arg.str \in valid THEN "ok" ELSE "ValueError"

validate_controlplane_type(arg) ==
    OneOf(arg, {CONTROLPLANE_TYPE_STATICPODS, CONTROLPLANE_TYPE_SELFHOSTING})

validate_certificateAuthority_type(arg) ==
    OneOf(arg, {CERTIFICATEAUTHORITY_TYPE_LOCAL, CERTIFICATEAUTHORITY_TYPE_EXTERNAL})

validate_certificateAuthority_location(arg) ==
    OneOf(arg, {CERTIFICATEAUTHORITY_LOCATION_FILESYSTEM, CERTIFICATEAUTHORITY_LOCATION_SECRETS})

validate_dns_addon(arg) == OneOf(arg, {DNS_ADDON_KUBE_DNS, DNS_ADDON_CORE_DNS})

validate_network_addon(arg) ==
    OneOf(arg, {NETWORK_ADDON_WEAVENET, NETWORK_ADDON_FLANNEL, NETWORK_ADDON_CALICO})

validate_kubelet_config_type(arg) ==
    OneOf(arg, {KUBELET_CONFIG_TYPE_SYSTEMDDROPIN, KUBELET_CONFIG_TYPE_DYNAMICKUBELETCONFIG})

\* the (serviceSubnet, podSubnet) defaults of a network add-on
network_addon_default_subnet(addon) ==
    IF addon = NETWORK_ADDON_WEAVENET THEN <<YList(<<YNone>>), YList(<<YNone>>)>>
    ELSE IF addon = NETWORK_ADDON_FLANNEL
         THEN <<YList(<<YNone>>), YList(<<YStr("10.244.0.0/16")>>)>>
    ELSE <<YList(<<YNone>>), YList(<<YStr("192.168.0.0/16")>>)>>

(***************************************************************************)
(* getx: deep get with defaulting and validation.  A validator is given by   *)
(* its name; applied to a value it yields "ok" or the name of the exception *)
(* it raises.                                                               *)
(***************************************************************************)
NoValidator == "None"

\* validator(data)
Validate(validator, arg) ==
    CASE validator = "validate_rfc123_label" -> validate_rfc123_label(arg)
      [] validator = "validate_rfc123_subdomain" -> validate_rfc123_subdomain(arg)
      [] validator = "validate_cidr" -> validate_cidr(arg)
      [] validator = "validate_cidrs" -> validate_cidrs(arg)
      [] validator = "validate_controlplane_type" -> validate_controlplane_type(arg)
      [] validator = "validate_certificateAuthority_type" -> validate_certificateAuthority_type(arg)
      [] validator = "validate_certificateAuthority_location" -> validate_certificateAuthority_location(arg)
      [] validator = "validate_dns_addon" -> validate_dns_addon(arg)
      [] validator = "validate_network_addon" -> validate_network_addon(arg)
      [] validator = "validate_kubelet_config_type" -> validate_kubelet_config_type(arg)
      [] validator = "validate_integer" -> validate_integer(arg)
      [] validator = "validate_roles" -> validate_roles(arg)

RECURSIVE Walk(_, _, _, _)
\* the loop of getx over the keys still to resolve
Walk(data, path, keys, default) ==
    IF path = <<>> THEN Ok(data)
    ELSE IF ~IsMap(data)
         THEN \* data[key] on a str, int, list or None raises TypeError
              Raise("TypeError", keys)
    ELSE IF Head(path) \notin DOMAIN data.map
         THEN IF default # YNone THEN [kind |-> "default", value |-> default]
              ELSE Raise("KeyError", keys)
    ELSE Walk(data.map[Head(path)], Tail(path), keys, default)

getx(data, keys, default, validator) ==
    LET r == Walk(data, Split(keys), keys, default)
    IN  IF r.kind = "default" THEN Ok(r.value)
        ELSE IF ~IsOk(r) THEN r
        ELSE IF validator # NoValidator /\ Validate(validator, r.value) # "ok"
             THEN Raise(Validate(validator, r.value), keys)
        ELSE r

(***************************************************************************)
(* get_cluster: the VagrantCluster record of a Cluster document.            *)
(***************************************************************************)
ERR_PKI == "Invalid cluster definition. PKILocation can be secrets only if controlplane is self hosted"

\* m[k] = v on a dict
Put(m, k, v) == [x \in DOMAIN m \cup {k} |-> IF x = k THEN v ELSE m[x]]

\* extra_vars['kubernetes'][k] = v
SetKubernetes(extra, k, v) ==
    YMap(Put(extra.map, "kubernetes", YMap(Put(extra.map["kubernetes"].map, k, v))))

\* value[0] on what getx returned for a subnet
Subscript0(v) ==
    IF IsList(v)
    THEN IF Len(v.list) = 0 THEN Raise("IndexError", "list index out of range")
         ELSE Ok(v.list[1])
    ELSE IF IsStr(v)
    THEN IF Len(v.str) = 0 THEN Raise("IndexError", "string index out of range")
         ELSE Ok(YStr(SubSeq(v.str, 1, 1)))
    ELSE Raise("TypeError", "object has no attribute __getitem__")

\* class VagrantCluster, with the fields get_cluster resolved
VagrantCluster(name, version, controlplane, certificateAuthority, pkiLocation, dnsAddon, dnsDomain, networkAddon, serviceSubnet, podSubnet, kubeletConfig, extra) ==
    [ name |-> name, version |-> version, controlplane |-> controlplane,
      certificateAuthority |-> certificateAuthority, pkiLocation |-> pkiLocation,
      dnsAddon |-> dnsAddon, dnsDomain |-> dnsDomain, networkAddon |-> networkAddon,
      serviceSubnet |-> serviceSubnet, podSubnet |-> podSubnet,
      kubeletConfig |-> kubeletConfig, extra_vars |-> extra,
      highavailability |-> FALSE, externalEtcd |-> FALSE ]

\* PkiConsistent with the comparison of the controlplane inverted
PkiConsistentInverted(pkiLocation, controlplane) ==
    ~(pkiLocation = CERTIFICATEAUTHORITY_LOCATION_SECRETS
      /\ controlplane = CONTROLPLANE_TYPE_SELFHOSTING)

\* the consistency check that ends get_cluster
PkiConsistent(pkiLocation, controlplane) ==
    ~(pkiLocation = CERTIFICATEAUTHORITY_LOCATION_SECRETS
      /\ controlplane # CONTROLPLANE_TYPE_SELFHOSTING)

\* lines 130-144: the copies into extra_vars and the consistency check
FinishCluster(c) ==
    LET e1 == IF c.dnsDomain # DEFAULT_DNS_DOMAIN
              THEN SetKubernetes(c.extra_vars, "dnsDomain", YStr(c.dnsDomain))
              ELSE c.extra_vars
        s0 == Subscript0(c.serviceSubnet)
        e2 == IF s0.value # YNone THEN SetKubernetes(e1, "serviceSubnet", s0.value) ELSE e1
        p0 == Subscript0(c.podSubnet)
        e3 == IF p0.value # YNone THEN SetKubernetes(e2, "podSubnet", p0.value) ELSE e2
    IN  IF ~IsOk(s0) THEN s0
        ELSE IF ~IsOk(p0) THEN p0
        ELSE IF ~PkiConsistent(c.pkiLocation, c.controlplane) THEN Raise("ValueError", ERR_PKI)
        ELSE Ok([c EXCEPT !.extra_vars = e3])

get_cluster(data) ==
    LET K == "spec.providerConfig.value.kubernetes."
        name == getx(data, "metadata.name", YNone, "validate_rfc123_label")
        version == getx(data, K \o "version", YNone, NoValidator)
        controlplane == getx(data, K \o "controlplane",
                             YStr(CONTROLPLANE_TYPE_STATICPODS), "validate_controlplane_type")
        certificateAuthority == getx(data, K \o "certificateAuthority",
                             YStr(CERTIFICATEAUTHORITY_TYPE_LOCAL), "validate_certificateAuthority_type")
        pkiLocation == getx(data, K \o "pkiLocation",
                             YStr(CERTIFICATEAUTHORITY_LOCATION_FILESYSTEM),
                             "validate_certificateAuthority_location")
        dnsAddon == getx(data, K \o "dnsAddon", YStr(DNS_ADDON_KUBE_DNS), "validate_dns_addon")
        dnsDomain == getx(data, "spec.clusterNetwork.serviceDomain",
                          YStr(DEFAULT_DNS_DOMAIN), "validate_rfc123_subdomain")
        networkAddon == getx(data, K \o "cni.plugin",
                             YStr(NETWORK_ADDON_WEAVENET), "validate_network_addon")
        subnets == network_addon_default_subnet(networkAddon.value.str)
        serviceSubnet == getx(data, "spec.clusterNetwork.services.cidrblocks",
                              subnets[1], "validate_cidr")
        podSubnet == getx(data, "spec.clusterNetwork.pods.cidrblocks",
                          subnets[2], "validate_cidrs")
        kubeletConfig == getx(data, K \o "kubeletConfig",
                              YStr(KUBELET_CONFIG_TYPE_SYSTEMDDROPIN), "validate_kubelet_config_type")
        extra == getx(data, "spec.providerConfig.value", YNone, NoValidator)
    IN  IF ~IsOk(name) THEN name
        ELSE IF ~IsOk(version) THEN version
        ELSE IF ~IsOk(controlplane) THEN controlplane
        ELSE IF ~IsOk(certificateAuthority) THEN certificateAuthority
        ELSE IF ~IsOk(pkiLocation) THEN pkiLocation
        ELSE IF ~IsOk(dnsAddon) THEN dnsAddon
        ELSE IF ~IsOk(dnsDomain) THEN dnsDomain
        ELSE IF ~IsOk(networkAddon) THEN networkAddon
        ELSE IF ~IsOk(serviceSubnet) THEN serviceSubnet
        ELSE IF ~IsOk(podSubnet) THEN podSubnet
        ELSE IF ~IsOk(kubeletConfig) THEN kubeletConfig
        ELSE IF ~IsOk(extra) THEN extra
        ELSE FinishCluster(VagrantCluster(
                 name.value.str, version.value, controlplane.value.str,
                 certificateAuthority.value.str, pkiLocation.value.str, dnsAddon.value.str,
                 dnsDomain.value.str, networkAddon.value.str, serviceSubnet.value,
                 podSubnet.value, kubeletConfig.value.str, extra.value))

(***************************************************************************)
(* Cluster documents.  A field that is Absent is left out of its mapping,   *)
(* and a mapping left without fields is left out of its parent.             *)
(***************************************************************************)
Absent == [absent |-> TRUE]

\* the mapping of the present pairs <<key, value>>, or Absent when none is
Mapping(pairs) ==
    LET present == {p \in pairs : p[2] # Absent}
    IN  IF present = {} THEN Absent
        ELSE YMap([k \in {p[1] : p \in present} |-> (CHOOSE p \in present : p[1] = k)[2]])

ClusterDocument(name, version, controlplane, pkiLocation, plugin, serviceDomain, services, pods) ==
    YMap([ kind |-> YStr("Cluster") ] @@ Mapping({
        <<"metadata", Mapping({<<"name", name>>})>>,
        <<"spec", Mapping({
            <<"clusterNetwork", Mapping({
                <<"serviceDomain", serviceDomain>>,
                <<"services", Mapping({<<"cidrblocks", services>>})>>,
                <<"pods", Mapping({<<"cidrblocks", pods>>})>> })>>,
            <<"providerConfig", Mapping({
                <<"value", Mapping({
                    <<"kubernetes", Mapping({
                        <<"version", version>>,
                        <<"controlplane", controlplane>>,
                        <<"pkiLocation", pkiLocation>>,
                        <<"cni", Mapping({<<"plugin", plugin>>})>> })>> })>> })>> })>> }).map)

(***************************************************************************)
(* get_machines: the machine expander.                                      *)
(***************************************************************************)
\* "%s" of an integer
Str(n) == ToString(n)

\* class VagrantMachine, as the loop body builds it for set s and counter j
VagrantMachine(c, s, j) ==
    LET name == IF s.replicas = 1 THEN c.name \o "-" \o s.name
                ELSE c.name \o "-" \o s.name \o Str(j)
    IN  [ name |-> name,
          hostname |-> c.name \o "-" \o name \o ".local",
          box |-> s.box,
          ip |-> "10.10.10.1" \o Str(j),
          cpus |-> s.cpus,
          memory |-> s.memory,
          roles |-> s.roles ]

\* len(range(1, replicas + 1))
RangeLen(replicas) == IF replicas > 0 THEN replicas ELSE 0

\* the inner loop: the machines of set s, the counter entering at j
ExpandSet(c, s, j) == [i \in 1 .. RangeLen(s.replicas) |-> VagrantMachine(c, s, j + i - 1)]

RECURSIVE Expand(_, _, _)
\* the outer loop over the machine sets still to expand
Expand(c, sets, j) ==
    IF sets = <<>> THEN <<>>
    ELSE ExpandSet(c, Head(sets), j)
         \o Expand(c, Tail(sets), j + RangeLen(Head(sets).replicas))

\* the machines of a list that carry a role
WithRole(ms, role) == {i \in 1 .. Len(ms) : role \in ms[i].roles}

\* ClusterChecks without the external-etcd check
ClusterChecksEtcdUnchecked(c, ms) ==
    LET masters == Cardinality(WithRole(ms, ROLE_MASTER))
    IN  IF masters = 0 THEN ERR_NO_MASTER
        ELSE IF masters > 1 /\ c.pkiLocation = CERTIFICATEAUTHORITY_LOCATION_SECRETS
             THEN ERR_SECRETS
        ELSE Returned

\* ClusterChecks with the Master check comparing "< 0" for "== 0"
ClusterChecksMasterUnchecked(c, ms) ==
    LET masters == Cardinality(WithRole(ms, ROLE_MASTER))
    IN  IF masters < 0 THEN ERR_NO_MASTER
        ELSE IF masters > 1 /\ Cardinality(WithRole(ms, ROLE_ETCD)) = 0 THEN ERR_NO_ETCD
        ELSE IF masters > 1 /\ c.pkiLocation = CERTIFICATEAUTHORITY_LOCATION_SECRETS
             THEN ERR_SECRETS
        ELSE Returned

\* ClusterChecks with the two multi-master checks in the other order
ClusterChecksSecretsFirst(c, ms) ==
    LET masters == Cardinality(WithRole(ms, ROLE_MASTER))
    IN  IF masters = 0 THEN ERR_NO_MASTER
        ELSE IF masters > 1 /\ c.pkiLocation = CERTIFICATEAUTHORITY_LOCATION_SECRETS
             THEN ERR_SECRETS
        ELSE IF masters > 1 /\ Cardinality(WithRole(ms, ROLE_ETCD)) = 0 THEN ERR_NO_ETCD
        ELSE Returned

\* the cluster-wide checks: the message of the error raised, or Returned
ClusterChecks(c, ms) ==
    LET masters == Cardinality(WithRole(ms, ROLE_MASTER))
    IN  IF masters = 0 THEN ERR_NO_MASTER
        ELSE IF masters > 1 /\ Cardinality(WithRole(ms, ROLE_ETCD)) = 0 THEN ERR_NO_ETCD
        ELSE IF masters > 1 /\ c.pkiLocation = CERTIFICATEAUTHORITY_LOCATION_SECRETS
             THEN ERR_SECRETS
        ELSE Returned

\* HighAvailability with the threshold off by one
HighAvailabilityMoreThanTwo(c, ms) ==
    IF Cardinality(WithRole(ms, ROLE_MASTER)) > 2 THEN TRUE ELSE c.highavailability

\* cluster.highavailability once the Master branch has run
HighAvailability(c, ms) ==
    IF Cardinality(WithRole(ms, ROLE_MASTER)) > 1 THEN TRUE ELSE c.highavailability

\* ExternalEtcd looking for the Master role
ExternalEtcdFromMasters(c, ms) ==
    IF Cardinality(WithRole(ms, ROLE_MASTER)) > 0 THEN TRUE ELSE c.externalEtcd

\* cluster.externalEtcd once the Etcd branch has run
ExternalEtcd(c, ms) ==
    IF Cardinality(WithRole(ms, ROLE_ETCD)) > 0 THEN TRUE ELSE c.externalEtcd

\* Dumps with the file written before the checks
DumpsBeforeChecks(result) == TRUE

\* whether the call reaches yaml.dump
Dumps(result) == result = Returned

\* the whole call: its result, the value returned, the cluster record
\* afterwards, and whether tmp/machines.yml was written
get_machines(c, sets) ==
    LET ms == Expand(c, sets, 1)
        result == ClusterChecks(c, ms)
    IN  [ result |-> result,
          machines |-> IF result = Returned THEN ms ELSE NoMachines,
          cluster |-> [c EXCEPT
              !.highavailability = HighAvailability(c, ms),
              !.externalEtcd = IF result = Returned THEN ExternalEtcd(c, ms)
                               ELSE c.externalEtcd],
          dumped |-> Dumps(result) ]

(***************************************************************************)
(* get_machineSet: the VagrantMachineSet record of a MachineSet document.   *)
(***************************************************************************)
\* the Python value of a YAML scalar
Scalar(v) == IF IsInt(v) THEN v.int ELSE IF IsStr(v) THEN v.str ELSE v

\* the roles a value holds for "ROLE in s.roles": the elements of a list,
\* the keys of a mapping; no role is a substring of the empty string, the
\* one string validate_roles lets through
RolesOf(v) ==
    IF IsList(v) THEN {v.list[i].str : i \in 1 .. Len(v.list)}
    ELSE IF IsMap(v) THEN DOMAIN v.map
    ELSE {}

get_machineSet(data) ==
    LET P == "spec.template.spec.providerConfig.value."
        name == getx(data, "metadata.name", YNone, "validate_rfc123_label")
        replicas == getx(data, "spec.replicas", YInt(1), "validate_integer")
        box == getx(data, P \o "box", YStr("ubuntu/xenial64"), NoValidator)
        cpus == getx(data, P \o "cpus", YInt(2), "validate_integer")
        memory == getx(data, P \o "memory", YInt(2048), "validate_integer")
        roles == getx(data, "spec.template.spec.roles", YNone, "validate_roles")
    IN  IF ~IsOk(name) THEN name
        ELSE IF ~IsOk(replicas) THEN replicas
        ELSE IF ~IsOk(box) THEN box
        ELSE IF ~IsOk(cpus) THEN cpus
        ELSE IF ~IsOk(memory) THEN memory
        ELSE IF ~IsOk(roles) THEN roles
        ELSE Ok([ name |-> Scalar(name.value), replicas |-> Scalar(replicas.value),
                  box |-> Scalar(box.value), cpus |-> Scalar(cpus.value),
                  memory |-> Scalar(memory.value), roles |-> RolesOf(roles.value) ])

\* a MachineSet document; a field that is Absent is left out
MachineSetDocument(name, replicas, box, cpus, memory, roles) ==
    YMap([ kind |-> YStr("MachineSet") ] @@ Mapping({
        <<"metadata", Mapping({<<"name", name>>})>>,
        <<"spec", Mapping({
            <<"replicas", replicas>>,
            <<"template", Mapping({
                <<"spec", Mapping({
                    <<"roles", roles>>,
                    <<"providerConfig", Mapping({
                        <<"value", Mapping({
                            <<"box", box>>,
                            <<"cpus", cpus>>,
                            <<"memory", memory>> })>> })>> })>> })>> })>> }).map)

(***************************************************************************)
(* parse: the scan of the files of a folder.                                *)
(***************************************************************************)
\* the name the two raise statements that end parse format into their
\* message; no module, function or builtin defines it
ERR_SPEC_UNDEFINED == "global name 'spec' is not defined"

\* what a document of a kind adds to the scan when its record was built,
\* and the exception raised otherwise
Tagged(kind, r) == IF IsOk(r) THEN [kind |-> kind, value |-> r.value] ELSE r

\* LoadFile with the MachineSet branch as an else: every kind other than
\* Cluster is read as a MachineSet
LoadFileElseMachineSet(data) ==
    IF ~IsMap(data) THEN Raise("TypeError", "kind")
    ELSE IF "kind" \notin DOMAIN data.map THEN Raise("KeyError", "kind")
    ELSE IF data.map["kind"] = YStr("Cluster") THEN Tagged("Cluster", get_cluster(data))
    ELSE Tagged("MachineSet", get_machineSet(data))

\* the body of the try block for one file: what the document adds to the
\* scan, or the exception it raises
LoadFile(data) ==
    IF ~IsMap(data) THEN Raise("TypeError", "kind")
    ELSE IF "kind" \notin DOMAIN data.map THEN Raise("KeyError", "kind")
    ELSE IF data.map["kind"] = YStr("Cluster") THEN Tagged("Cluster", get_cluster(data))
    ELSE IF data.map["kind"] = YStr("MachineSet")
         THEN Tagged("MachineSet", get_machineSet(data))
    ELSE [kind |-> "ignored", value |-> YNone]

\* whether LoadFile ended without an exception
Loaded(r) == r.kind \in {"Cluster", "MachineSet", "ignored"}


\* the documents the files of the folder hold
Files ==
    { \* Cluster documents: the defaults of weavenet; flannel; flannel with a
      \* service subnet; flannel with a list of pod subnets
      ClusterDocument(YStr("c"), YStr("v1.10"), Absent, Absent, Absent, Absent, Absent, Absent),
      ClusterDocument(YStr("c"), YStr("v1.10"), Absent, Absent,
                      YStr(NETWORK_ADDON_FLANNEL), Absent, Absent, Absent),
      ClusterDocument(YStr("c"), YStr("v1.10"), Absent, Absent,
                      YStr(NETWORK_ADDON_FLANNEL), Absent, YStr("10.96.0.0/12"), Absent),
      ClusterDocument(YStr("c"), YStr("v1.10"), Absent, Absent,
                      YStr(NETWORK_ADDON_FLANNEL), Absent, Absent,
                      YList(<<YStr("10.32.0.0/12")>>)),
      \* MachineSet documents
      MachineSetDocument(YStr("x"), YInt(2), Absent, Absent, Absent,
                         YList(<<YStr(ROLE_MASTER)>>)),
      MachineSetDocument(YStr("x1"), Absent, YStr("ubuntu/bionic64"), YInt(4), YInt(4096),
                         YList(<<YStr(ROLE_MASTER), YStr(ROLE_ETCD)>>)),
      MachineSetDocument(YStr("n"), YInt(0), Absent, Absent, Absent,
                         YList(<<YStr(ROLE_NODE)>>)),
      MachineSetDocument(YStr("e"), Absent, Absent, Absent, Absent, YList(<<>>)),
      MachineSetDocument(YStr("b"), YStr("many"), Absent, Absent, Absent,
                         YList(<<YStr(ROLE_NODE)>>)),
      MachineSetDocument(YStr("w"), Absent, Absent, Absent, Absent,
                         YList(<<YStr("Worker")>>)),
      \* a document of another kind, and one without a kind
      YMap([kind |-> YStr("Machine"), metadata |-> YMap([name |-> YStr("m")])]),
      YMap([metadata |-> YMap([name |-> YStr("m")])]) }

\* LoadFile on each of the documents, evaluated once
FileResults == [data \in Files |-> LoadFile(data)]

RECURSIVE Scan(_, _, _)

\* ScanFile that assigns cluster only while it is None
ScanFileKeepsFirstCluster(r, rest, c, sets) ==
    IF ~Loaded(r) THEN Raise("RuntimeError", r.kind)
    ELSE IF r.kind = "Cluster" THEN Scan(rest, IF c = NoCluster THEN r.value ELSE c, sets)
    ELSE IF r.kind = "MachineSet" THEN Scan(rest, c, Append(sets, r.value))
    ELSE Scan(rest, c, sets)

\* one pass of the for loop of parse: r is what the file added or raised,
\* rest the files still to scan
ScanFile(r, rest, c, sets) ==
    IF ~Loaded(r) THEN Raise("RuntimeError", r.kind)
    ELSE IF r.kind = "Cluster" THEN Scan(rest, r.value, sets)
    ELSE IF r.kind = "MachineSet" THEN Scan(rest, c, Append(sets, r.value))
    ELSE Scan(rest, c, sets)

\* the for loop of parse over the files still to scan
Scan(files, c, sets) ==
    IF files = <<>> THEN Ok([cluster |-> c, machineSets |-> sets])
    ELSE ScanFile(FileResults[Head(files)], Tail(files), c, sets)

\* the two completeness checks that end parse; their raise statements
\* evaluate the undefined name `spec`
CheckComplete(s) ==
    IF ~IsOk(s) THEN s
    ELSE IF s.value.cluster = NoCluster THEN Raise("NameError", ERR_SPEC_UNDEFINED)
    ELSE IF Len(s.value.machineSets) = 0 THEN Raise("NameError", ERR_SPEC_UNDEFINED)
    ELSE s

\* parse(folder)
parse(files) == CheckComplete(Scan(files, NoCluster, <<>>))

\* fallbackSettings that also resets the sizes of the machine sets
fallbackSettingsAndSizes(c, sets) ==
    [ cluster |-> c,
      machineSets |-> [i \in 1 .. Len(sets) |->
          [sets[i] EXCEPT !.box = "bento/ubuntu-17.10", !.cpus = 2, !.memory = 2048]] ]

\* fallbackSettings(cluster, machineSets): the records afterwards
fallbackSettings(c, sets) ==
    [ cluster |-> c,
      machineSets |-> [i \in 1 .. Len(sets) |-> [sets[i] EXCEPT !.box = "bento/ubuntu-17.10"]] ]

(***************************************************************************)
(* The state machine: a caller that parses a Cluster document, collects     *)
(* machine sets and passes both to get_machines, possibly more than once.   *)
(***************************************************************************)
\* the Cluster documents given to get_cluster
ClusterDocuments ==
    { ClusterDocument(YStr("c"), YStr("v1.10"), cp, pki, Absent, Absent, Absent, Absent) :
        cp \in {Absent, YStr(CONTROLPLANE_TYPE_STATICPODS), YStr(CONTROLPLANE_TYPE_SELFHOSTING)},
        pki \in {Absent, YStr(CERTIFICATEAUTHORITY_LOCATION_SECRETS)} }

Init ==
    /\ document = NoDocument
    /\ parsed = NotCalled
    /\ cluster = NoCluster
    /\ machineSets = <<>>
    /\ machines = NoMachines
    /\ outcome = NotCalled
    /\ machinesFile = FALSE
    /\ dumped = FALSE
    /\ passes = Never
    /\ folder = <<>>
    /\ parseResult = NoParse
    /\ call = NoCall

\* the caller no longer holds the result of an earlier get_machines call
ForgetResult ==
    /\ machines' = NoMachines
    /\ outcome' = NotCalled
    /\ dumped' = FALSE

\* get_cluster on each of the documents, evaluated once
Parsed == [data \in ClusterDocuments |-> get_cluster(data)]

\* parse, on a Cluster document: cluster = get_cluster(data)
GetCluster(data) ==
    LET r == Parsed[data]
    IN  /\ document' = data
        /\ parsed' = IF IsOk(r) THEN Returned ELSE r.kind
        /\ cluster' = IF IsOk(r) THEN r.value ELSE NoCluster
        /\ passes' = Never
        /\ ForgetResult
        /\ UNCHANGED <<machineSets, machinesFile>>
        /\ UNCHANGED parseVars

\* parse: machineSets = []
ResetMachineSets ==
    /\ machineSets # <<>>
    /\ machineSets' = <<>>
    /\ ForgetResult
    /\ UNCHANGED <<document, parsed, cluster, machinesFile, passes>>
    /\ UNCHANGED parseVars

\* parse, on a MachineSet document: machineSets.append(...)
AppendMachineSet(s) ==
    /\ Len(machineSets) < MaxSets
    /\ machineSets' = Append(machineSets, s)
    /\ ForgetResult
    /\ UNCHANGED <<document, parsed, cluster, machinesFile, passes>>
    /\ UNCHANGED parseVars

\* get_machines(cluster, machineSets)
GetMachines ==
    /\ cluster # NoCluster
    /\ LET r == get_machines(cluster, machineSets)
       IN  /\ cluster' = r.cluster
           /\ machines' = r.machines
           /\ outcome' = r.result
           /\ dumped' = r.dumped
           /\ machinesFile' = (machinesFile \/ r.dumped)
    /\ passes' = IF passes = Never THEN Once ELSE Again
    /\ UNCHANGED <<document, parsed, machineSets>>
    /\ UNCHANGED parseVars

\* vagrant_utils.clean_working_folders: removes the tmp folder
CleanWorkingFolders ==
    /\ machinesFile
    /\ machinesFile' = FALSE
    /\ UNCHANGED <<document, parsed, cluster, machineSets, machines, outcome, dumped, passes>>
    /\ UNCHANGED parseVars

Next ==
    \/ \E data \in ClusterDocuments : GetCluster(data)
    \/ ResetMachineSets
    \/ \E s \in VagrantMachineSet : AppendMachineSet(s)
    \/ GetMachines
    \/ CleanWorkingFolders

Spec == Init /\ [][Next]_vars

(***************************************************************************)
(* The state machine of parse: files appear in the folder, parse scans it,  *)
(* and the caller passes what parse returned to get_machines and            *)
(* fallbackSettings.                                                        *)
(***************************************************************************)
\* the caller holds nothing of an earlier parse
ForgetParse ==
    /\ parseResult' = NoParse
    /\ cluster' = NoCluster
    /\ machineSets' = <<>>
    /\ passes' = Never
    /\ ForgetResult

\* a file with the document data appears in the folder, last in scan order
WriteFile(data) ==
    /\ Len(folder) < MaxFiles
    /\ folder' = Append(folder, data)
    /\ ForgetParse
    /\ UNCHANGED <<document, parsed, machinesFile, call>>

\* the folder is emptied
RemoveFiles ==
    /\ folder # <<>>
    /\ folder' = <<>>
    /\ ForgetParse
    /\ UNCHANGED <<document, parsed, machinesFile, call>>

\* cluster, machineSets = parse(folder)
Parse ==
    /\ LET r == parse(folder)
       IN  /\ parseResult' = [kind |-> r.kind, value |-> IF IsOk(r) THEN "" ELSE r.value]
           /\ cluster' = IF IsOk(r) THEN r.value.cluster ELSE NoCluster
           /\ machineSets' = IF IsOk(r) THEN r.value.machineSets ELSE <<>>
    /\ passes' = Never
    /\ ForgetResult
    /\ UNCHANGED <<document, parsed, machinesFile, folder, call>>

\* fallbackSettings(cluster, machineSets)
FallbackSettings ==
    /\ cluster # NoCluster
    /\ LET r == fallbackSettings(cluster, machineSets)
       IN  /\ cluster' = r.cluster
           /\ machineSets' = r.machineSets
    /\ UNCHANGED <<document, parsed, machines, outcome, machinesFile, dumped, passes>>
    /\ UNCHANGED parseVars

ParseNext ==
    \/ \E data \in Files : WriteFile(data)
    \/ RemoveFiles
    \/ Parse
    \/ GetMachines
    \/ FallbackSettings

ParseSpec == Init /\ [][ParseNext]_vars

(***************************************************************************)
(* The state machine of direct getx calls, on small nested documents.       *)
(***************************************************************************)
\* the documents: a nested mapping, and mappings whose key a holds a string,
\* an integer, nothing (None), or a list
GetxData ==
    { YMap([a |-> YMap([b |-> YStr("x1")])]),
      YMap([a |-> YMap([b |-> YStr("X 1")])]),
      YMap([a |-> YStr("s")]),
      YMap([a |-> YInt(3)]),
      YMap([a |-> YNone]),
      YMap([a |-> YList(<<YStr("b")>>)]) }

GetxKeys == {"a", "a.b", "a.b.c", "c"}

\* default=None stands for no default
GetxDefaults == {YNone, YStr("dflt"), YInt(1)}

GetxValidators == {NoValidator, "validate_rfc123_label", "validate_integer"}

\* getx(data, keys, default, validator)
Getx(data, keys, default, validator) ==
    /\ call' = [ data |-> data, keys |-> keys, default |-> default,
                 validator |-> validator, result |-> getx(data, keys, default, validator) ]
    /\ UNCHANGED <<document, parsed, cluster, machineSets, machines, outcome,
                   machinesFile, dumped, passes, folder, parseResult>>

GetxNext ==
    \E data \in GetxData, keys \in GetxKeys, default \in GetxDefaults,
       validator \in GetxValidators : Getx(data, keys, default, validator)

GetxSpec == Init /\ [][GetxNext]_vars

(***************************************************************************)
(* Properties of get_machines.  They speak of the call whose result the     *)
(* caller still holds: outcome # NotCalled, and machineSets is the list     *)
(* that call was given.                                                     *)
(***************************************************************************)
\* how many machines a set stands for
MachinesOf(s) == IF s.replicas > 0 THEN s.replicas ELSE 0

RECURSIVE MachinesBefore(_, _)
\* how many machines the sets before the k-th stand for
MachinesBefore(sets, k) ==
    IF k <= 1 THEN 0 ELSE MachinesBefore(sets, k - 1) + MachinesOf(sets[k - 1])

RECURSIVE RoleCount(_, _)
\* how many machines of the sets carry a role
RoleCount(sets, role) ==
    IF sets = <<>> THEN 0
    ELSE (IF role \in Head(sets).roles THEN MachinesOf(Head(sets)) ELSE 0)
         + RoleCount(Tail(sets), role)

RECURSIVE SumReplicas(_)
\* the sum of the replica counts as declared
SumReplicas(sets) ==
    IF sets = <<>> THEN 0 ELSE Head(sets).replicas + SumReplicas(Tail(sets))

RECURSIVE ParseInt(_)
\* the number a string of decimal digits denotes
ParseInt(s) ==
    IF Len(s) = 0 THEN 0
    ELSE 10 * ParseInt(SubSeq(s, 1, Len(s) - 1))
         + (CHOOSE d \in 0 .. 9 : ToString(d) = SubSeq(s, Len(s), Len(s)))

\* the 32-bit value of a dotted-quad address
IpValue(ip) ==
    LET p == Split(ip)
    IN  ((ParseInt(p[1]) * 256 + ParseInt(p[2])) * 256 + ParseInt(p[3])) * 256 + ParseInt(p[4])

\* the address of the first machine of a cluster
BaseAddress == "10.10.10.11"

Called == outcome # NotCalled
Succeeded == outcome = Returned
Failed == outcome \in GetMachinesErrors

\* C1: a set with replicas = 1 yields the machine <cluster>-<set>; a set with
\* replicas = N > 1 yields <cluster>-<set>1 .. <cluster>-<set>N, numbered by the
\* position of the machine inside its own set, whatever sets precede it.
C1_NamesNumberedWithinSet ==
    Succeeded =>
        \A k \in 1 .. Len(machineSets) :
            LET s == machineSets[k]
                before == MachinesBefore(machineSets, k)
            IN  \A i \in 1 .. MachinesOf(s) :
                    machines[before + i].name =
                        cluster.name \o "-" \o s.name
                        \o (IF s.replicas = 1 THEN "" ELSE ToString(i))

\* C2: the first machine of the cluster gets the base address and every
\* further machine, across set boundaries, the address of the machine before
\* it plus one.
C2_AddressesIncrementByOne ==
    Succeeded =>
        /\ machines[1].ip = BaseAddress
        /\ \A i \in 2 .. Len(machines) :
               IpValue(machines[i].ip) = IpValue(machines[i - 1].ip) + 1

\* C3: the returned list holds exactly `replicas` machines for each machine
\* set, in machine-set order, its length being the sum of the replica counts,
\* and each machine has the box, cpus, memory and roles of its set.
C3_ReplicasMachinesPerSet ==
    Succeeded =>
        /\ Len(machines) = SumReplicas(machineSets)
        /\ \A k \in 1 .. Len(machineSets) :
               LET s == machineSets[k]
                   before == SumReplicas(SubSeq(machineSets, 1, k - 1))
               IN  \A i \in 1 .. s.replicas :
                       /\ before + i \in 1 .. Len(machines)
                       /\ machines[before + i].box = s.box
                       /\ machines[before + i].cpus = s.cpus
                       /\ machines[before + i].memory = s.memory
                       /\ machines[before + i].roles = s.roles

\* C4: after get_machines returns a list with exactly one Master machine,
\* cluster.highavailability is false, also for a cluster record that was
\* passed to earlier get_machines calls.
C4_SingleMasterNotHighAvailability ==
    (Succeeded /\ Cardinality(WithRole(machines, ROLE_MASTER)) = 1)
        => cluster.highavailability = FALSE

\* C5: with at least two Master machines, at least one Etcd machine and a
\* pkiLocation other than 'secrets', get_machines returns the machine list and
\* cluster.highavailability is true afterwards.
C5_MultiMasterSucceeds ==
    ( /\ Called
      /\ RoleCount(machineSets, ROLE_MASTER) >= 2
      /\ RoleCount(machineSets, ROLE_ETCD) >= 1
      /\ cluster.pkiLocation # CERTIFICATEAUTHORITY_LOCATION_SECRETS )
        => /\ Succeeded
           /\ machines # NoMachines
           /\ Len(machines) = MachinesBefore(machineSets, Len(machineSets) + 1)
           /\ cluster.highavailability = TRUE

C5_Witness ==
    /\ Succeeded
    /\ RoleCount(machineSets, ROLE_MASTER) = 2
    /\ RoleCount(machineSets, ROLE_ETCD) >= 1
    /\ cluster.pkiLocation # CERTIFICATEAUTHORITY_LOCATION_SECRETS
    /\ cluster.highavailability

\* C6: with at least two Master machines and no Etcd machine, get_machines
\* fails with the external-etcd error and returns no machine list.
C6_MultiMasterNeedsEtcd ==
    ( /\ Called
      /\ RoleCount(machineSets, ROLE_MASTER) >= 2
      /\ RoleCount(machineSets, ROLE_ETCD) = 0 )
        => outcome = ERR_NO_ETCD /\ machines = NoMachines

C6_Witness ==
    /\ outcome = ERR_NO_ETCD
    /\ RoleCount(machineSets, ROLE_MASTER) >= 2
    /\ RoleCount(machineSets, ROLE_ETCD) = 0

\* C7: when no machine carries the Master role, the empty machine list of
\* sets with zero replicas included, get_machines fails with the
\* at-least-one-Master error.
C7_NoMasterFails ==
    (Called /\ RoleCount(machineSets, ROLE_MASTER) = 0)
        => outcome = ERR_NO_MASTER /\ machines = NoMachines

C7_Witness ==
    /\ outcome = ERR_NO_MASTER
    /\ machineSets # <<>>
    /\ \E k \in 1 .. Len(machineSets) :
           ROLE_MASTER \in machineSets[k].roles /\ machineSets[k].replicas = 0
    /\ \A k \in 1 .. Len(machineSets) : MachinesOf(machineSets[k]) = 0

\* C8: after a successful get_machines call on a cluster record that was
\* never passed before, cluster.externalEtcd is true if and only if some
\* returned machine carries the Etcd role.
C8_ExternalEtcdIffEtcdMachine ==
    (Succeeded /\ passes = Once)
        => (cluster.externalEtcd <=> \E i \in 1 .. Len(machines) : ROLE_ETCD \in machines[i].roles)

C8_Witness ==
    /\ Succeeded
    /\ passes = Once
    /\ cluster.externalEtcd
    /\ \E i \in 1 .. Len(machines) : ROLE_ETCD \in machines[i].roles
    /\ \E i \in 1 .. Len(machines) : ROLE_ETCD \notin machines[i].roles

\* C9: a get_machines call that fails on a cluster-wide check returns no
\* machine list and neither creates nor overwrites tmp/machines.yml.
C9_FailureWritesNothing ==
    [][(GetMachines /\ outcome' \in GetMachinesErrors)
           => /\ machines' = NoMachines
              /\ dumped' = FALSE
              /\ machinesFile' = machinesFile]_vars

C9_Witness ==
    /\ Failed
    /\ machines = NoMachines
    /\ machinesFile
    /\ passes = Again

\* C16: the cluster-wide checks run in a fixed order and only the first
\* violation is reported: no Master machine gives the at-least-one-Master
\* error whatever else is wrong; with two or more Masters and pkiLocation
\* 'secrets', the error is the external-etcd one when no machine carries
\* Etcd, and the certificates-in-secrets one when some machine does.
C16_ChecksInOrderFirstViolation ==
    (Called /\ cluster.pkiLocation = CERTIFICATEAUTHORITY_LOCATION_SECRETS) =>
        /\ RoleCount(machineSets, ROLE_MASTER) = 0 => outcome = ERR_NO_MASTER
        /\ ( /\ RoleCount(machineSets, ROLE_MASTER) >= 2
             /\ RoleCount(machineSets, ROLE_ETCD) = 0 ) => outcome = ERR_NO_ETCD
        /\ ( /\ RoleCount(machineSets, ROLE_MASTER) >= 2
             /\ RoleCount(machineSets, ROLE_ETCD) >= 1 ) => outcome = ERR_SECRETS

C16_Witness ==
    /\ outcome = ERR_NO_ETCD
    /\ cluster.pkiLocation = CERTIFICATEAUTHORITY_LOCATION_SECRETS
    /\ RoleCount(machineSets, ROLE_MASTER) >= 2
    /\ RoleCount(machineSets, ROLE_ETCD) = 0
    /\ RoleCount(machineSets, ROLE_NODE) >= 1

\* C18: a get_machines call that fails on a cluster-wide check leaves the
\* cluster record exactly as it was before the call, highavailability and
\* externalEtcd included.
C18_FailureLeavesClusterUnchanged ==
    [][(GetMachines /\ outcome' \in GetMachinesErrors) => cluster' = cluster]_vars

\* the pkiLocation and controlplane a Cluster document resolves to
DocumentPkiLocation ==
    getx(document, "spec.providerConfig.value.kubernetes.pkiLocation",
         YStr(CERTIFICATEAUTHORITY_LOCATION_FILESYSTEM), NoValidator).value
DocumentControlplane ==
    getx(document, "spec.providerConfig.value.kubernetes.controlplane",
         YStr(CONTROLPLANE_TYPE_STATICPODS), NoValidator).value

\* C10: every Cluster record get_cluster returns has pkiLocation = 'secrets'
\* only with controlplane = 'selfHosting'; a document with pkiLocation
\* 'secrets' and controlplane 'staticPods', given or defaulted, makes the
\* parse fail, and no machine is expanded for it.
C10_SecretsOnlySelfHosting ==
    /\ cluster # NoCluster =>
           (cluster.pkiLocation = CERTIFICATEAUTHORITY_LOCATION_SECRETS
                => cluster.controlplane = CONTROLPLANE_TYPE_SELFHOSTING)
    /\ ( /\ document # NoDocument
         /\ DocumentPkiLocation = YStr(CERTIFICATEAUTHORITY_LOCATION_SECRETS)
         /\ DocumentControlplane = YStr(CONTROLPLANE_TYPE_STATICPODS) )
           => /\ parsed = "ValueError"
              /\ cluster = NoCluster
              /\ ~Called
              /\ machines = NoMachines

C10_Witness ==
    /\ document # NoDocument
    /\ DocumentPkiLocation = YStr(CERTIFICATEAUTHORITY_LOCATION_SECRETS)
    /\ DocumentControlplane = YStr(CONTROLPLANE_TYPE_STATICPODS)
    /\ parsed = "ValueError"
    /\ machineSets # <<>>

RECURSIVE Resolves(_, _)
\* whether every segment of a path resolves in a document, and to what; a
\* segment is absent where the key is missing or the value reached is not a
\* mapping
Resolves(data, path) ==
    IF path = <<>> THEN [found |-> TRUE, value |-> data]
    ELSE IF ~IsMap(data) THEN [found |-> FALSE, value |-> YNone]
    ELSE IF Head(path) \notin DOMAIN data.map THEN [found |-> FALSE, value |-> YNone]
    ELSE Resolves(data.map[Head(path)], Tail(path))

(***************************************************************************)
(* Properties of parse.  They speak of the parse call whose outcome the     *)
(* caller still holds: parseResult # NoParse, and folder is what it scanned.*)
(***************************************************************************)
\* the messages of the two raise statements that end parse
ERR_NO_CLUSTER == "Cluster object not defined"
ERR_NO_MACHINESETS == "MachineSets objects not defined"

ParseCalled == parseResult # NoParse
ParseReturned == parseResult.kind = "ok"

\* the kind a document declares, or "" when it declares none
KindOf(data) ==
    IF IsMap(data) /\ "kind" \in DOMAIN data.map /\ IsStr(data.map["kind"])
    THEN data.map["kind"].str ELSE ""

\* the files of a folder that declare a kind, in scan order
OfKind(files, kind) == SelectSeq(files, LAMBDA data : KindOf(data) = kind)

\* no file of the folder raises inside the try block
ScannedWithoutError == \A i \in 1 .. Len(folder) : Loaded(FileResults[folder[i]])

\* C11: when parse has scanned all files without a per-file error, a folder
\* without a Cluster document makes it fail with the configuration error
\* (ValueError) 'Cluster object not defined', and a folder with a Cluster but
\* without a MachineSet document with the configuration error 'MachineSets
\* objects not defined'; no other kind of error is raised.
C11_IncompleteFolderConfigurationError ==
    (ParseCalled /\ ScannedWithoutError) =>
        /\ OfKind(folder, "Cluster") = <<>>
               => parseResult = [kind |-> "ValueError", value |-> ERR_NO_CLUSTER]
        /\ (OfKind(folder, "Cluster") # <<>> /\ OfKind(folder, "MachineSet") = <<>>)
               => parseResult = [kind |-> "ValueError", value |-> ERR_NO_MACHINESETS]

\* the Cluster document the returned Cluster record was built from
ClusterFile == LET cs == OfKind(folder, "Cluster") IN cs[Len(cs)]

\* the subnet a Cluster document supplies under a key of clusterNetwork
Supplied(data, key) == Resolves(data, <<"spec", "clusterNetwork", key, "cidrblocks">>)

\* a subnet in CIDR notation
WellFormedSubnet(v) == IsStr(v) /\ MatchCidr(v.str)

\* kubernetes.<key> of the extension mapping is as it should be for a
\* supplied and a default subnet
SubnetCopied(supplied, default, key) ==
    LET k == cluster.extra_vars.map["kubernetes"].map
    IN  IF supplied.found
        THEN WellFormedSubnet(supplied.value) => (key \in DOMAIN k /\ k[key] = supplied.value)
        ELSE IF default = YNone THEN key \notin DOMAIN k
        ELSE key \in DOMAIN k /\ k[key] = default

\* C13: for the Cluster record parse returned: a well-formed service (pod)
\* subnet supplied by the document is the value of kubernetes.serviceSubnet
\* (kubernetes.podSubnet) of the extension mapping; when the document
\* supplies none, the key holds the default subnet of the network addon if
\* it has one and is not written otherwise.
C13_SubnetsCopiedToExtraVars ==
    ParseReturned =>
        LET defaults == network_addon_default_subnet(cluster.networkAddon)
        IN  /\ SubnetCopied(Supplied(ClusterFile, "services"), defaults[1].list[1],
                            "serviceSubnet")
            /\ SubnetCopied(Supplied(ClusterFile, "pods"), defaults[2].list[1], "podSubnet")

\* C14: every MachineSet record parse returns has an integer replicas >= 1
\* and a non-empty roles that is a subset of {Master, Node, Etcd}: documents
\* with replicas <= 0, empty roles or a role outside the set are rejected.
C14_MachineSetConstraints ==
    ParseReturned =>
        \A i \in 1 .. Len(machineSets) :
            /\ machineSets[i].replicas \in Nat \ {0}
            /\ machineSets[i].roles # {}
            /\ machineSets[i].roles \subseteq {ROLE_MASTER, ROLE_NODE, ROLE_ETCD}

\* a document whose kind is present and is neither Cluster nor MachineSet
Unrecognised(data) ==
    /\ IsMap(data)
    /\ "kind" \in DOMAIN data.map
    /\ data.map["kind"] \notin {YStr("Cluster"), YStr("MachineSet")}

\* the folder without the files of unrecognised kind
WithoutUnrecognised(files) == SelectSeq(files, LAMBDA data : ~Unrecognised(data))

\* C15: a document whose kind is present but is neither Cluster nor
\* MachineSet is ignored: every parse call ends, with the same error or the
\* same returned cluster and machine-set list, as it would on the folder
\* without the files of unrecognised kind.
C15_UnrecognisedKindIgnored ==
    [][Parse =>
        LET r == parse(WithoutUnrecognised(folder))
        IN  /\ parseResult'.kind = r.kind
            /\ ~IsOk(r) => parseResult'.value = r.value
            /\ IsOk(r) => /\ cluster' = r.value.cluster
                          /\ machineSets' = r.value.machineSets]_vars

C15_Witness ==
    /\ ParseReturned
    /\ Len(folder) = MaxFiles
    /\ Unrecognised(folder[2])
    /\ KindOf(folder[1]) = "MachineSet"
    /\ KindOf(folder[3]) = "Cluster"
    /\ Len(machineSets) = 1

\* a step of an operation of the module on the records parse returned
RecordOperation == GetMachines \/ FallbackSettings

\* the step changes no Cluster field other than the two derived flags, and
\* these only in a get_machines call
ClusterFrame ==
    /\ [cluster' EXCEPT !.highavailability = cluster.highavailability,
                        !.externalEtcd = cluster.externalEtcd] = cluster
    /\ FallbackSettings => cluster' = cluster

\* the step leaves every field but box of every MachineSet record as it is
MachineSetFrameButBox ==
    /\ Len(machineSets') = Len(machineSets)
    /\ \A i \in 1 .. Len(machineSets) :
           [machineSets'[i] EXCEPT !.box = machineSets[i].box] = machineSets[i]

\* C17, as claimed: once parse has returned, get_machines and
\* fallbackSettings change no field of a MachineSet record, and no Cluster
\* field other than highavailability and externalEtcd, which only
\* get_machines sets.
C17_RecordsImmutableAfterParse ==
    [][RecordOperation => (machineSets' = machineSets /\ ClusterFrame)]_vars

\* C17, amended: once parse has returned, get_machines and fallbackSettings
\* change no field of a MachineSet record other than box, which only
\* fallbackSettings changes, to 'bento/ubuntu-17.10'; they change no Cluster
\* field other than highavailability and externalEtcd, which only
\* get_machines sets.
C17_RecordsImmutableButBox ==
    [][RecordOperation =>
        /\ MachineSetFrameButBox
        /\ GetMachines => machineSets' = machineSets
        /\ FallbackSettings =>
               \A i \in 1 .. Len(machineSets) : machineSets'[i].box = "bento/ubuntu-17.10"
        /\ ClusterFrame]_vars

C17_Witness ==
    /\ ParseReturned
    /\ Succeeded
    /\ cluster.externalEtcd
    /\ Len(machineSets) = 2
    /\ \A i \in 1 .. Len(machineSets) : machineSets[i].box = "bento/ubuntu-17.10"
    /\ \A i \in 1 .. Len(machines) : machines[i].box # "bento/ubuntu-17.10"
    /\ \E i \in 1 .. Len(machineSets) : machineSets[i].cpus # 2

\* the elements of a sequence are pairwise distinct
Distinct(seq) == \A i, j \in 1 .. Len(seq) : i # j => seq[i] # seq[j]

\* C19: when the names of the machine sets are pairwise distinct valid
\* RFC-1123 labels, the machines get_machines returns have pairwise distinct
\* names, hostnames and IP addresses.
C19_MachineNamesAndAddressesDistinct ==
    ( /\ Succeeded
      /\ Distinct([i \in 1 .. Len(machineSets) |-> machineSets[i].name])
      /\ \A i \in 1 .. Len(machineSets) : MatchLabel(machineSets[i].name) )
        => /\ Distinct([i \in 1 .. Len(machines) |-> machines[i].name])
           /\ Distinct([i \in 1 .. Len(machines) |-> machines[i].hostname])
           /\ Distinct([i \in 1 .. Len(machines) |-> machines[i].ip])

\* C20: a folder whose files all load, with one or more Cluster documents and
\* at least one MachineSet document, is never rejected: parse returns the
\* Cluster record of the last Cluster document in scan order and one
\* MachineSet record per MachineSet document, in scan order.
C20_LastClusterWinsSetsInOrder ==
    [][( /\ Parse
         /\ ScannedWithoutError
         /\ OfKind(folder, "Cluster") # <<>>
         /\ OfKind(folder, "MachineSet") # <<>> )
        => LET sets == OfKind(folder, "MachineSet")
           IN  /\ parseResult'.kind = "ok"
               /\ cluster' = get_cluster(ClusterFile).value
               /\ machineSets' = [i \in 1 .. Len(sets) |-> get_machineSet(sets[i]).value]]_vars

C20_Witness ==
    /\ ParseReturned
    /\ Len(folder) = MaxFiles
    /\ KindOf(folder[1]) = "Cluster"
    /\ KindOf(folder[2]) = "MachineSet"
    /\ KindOf(folder[3]) = "Cluster"
    /\ folder[1] # folder[3]
    /\ FileResults[folder[1]].value # cluster
    /\ Len(machineSets) = 1

(***************************************************************************)
(* Properties of getx.                                                      *)
(***************************************************************************)
\* C12: getx returns the resolved value when every segment of the path
\* resolves and the validator, if one is supplied, does not fail on it (its
\* failure is raised otherwise); when a segment is absent, also because an
\* intermediate value is not a mapping, it returns the default if one was
\* supplied, the validator not being invoked, and raises a missing-key error
\* naming the full dotted path if none was.
C12_GetxResolvesDefaultsOrMissingKey ==
    call # NoCall =>
        LET r == Resolves(call.data, Split(call.keys))
        IN  IF r.found
            THEN IF call.validator # NoValidator /\ Validate(call.validator, r.value) # "ok"
                 THEN call.result.kind = Validate(call.validator, r.value)
                 ELSE call.result = Ok(r.value)
            ELSE IF call.default # YNone
                 THEN call.result = Ok(call.default)
                 ELSE call.result = Raise("KeyError", call.keys)

====
